---- MODULE Spec2Model ----
(***************************************************************************)
(* Model of scrape.py: the crawl admission and orchestration controller.   *)
(* process_url is a pure function of (url, ledger, outcomes of the external *)
(* calls); main's seed loop, expansion and link loop are the actions.       *)
(***************************************************************************)
EXTENDS Integers, Sequences, FiniteSets, TLC

(* ---------------------------- bounds ------------------------------------ *)
MaxSeeds == 2

(* ---------------------------- the web ----------------------------------- *)
WikiUrl == "https://en.wikipedia.org/wiki/Sea_otter"
PageA == "http://example.com/a"
PageB == "http://example.com/b"
PdfUrl == "http://example.com/doc.pdf"
URLs == {WikiUrl, PageA, PageB, PdfUrl}

\* urlparse(url), on the URLs of this web
UrlParse(url) ==
    CASE url = WikiUrl -> [scheme |-> "https", netloc |-> "en.wikipedia.org", path |-> "/wiki/Sea_otter"]
      [] url = PageA -> [scheme |-> "http", netloc |-> "example.com", path |-> "/a"]
      [] url = PageB -> [scheme |-> "http", netloc |-> "example.com", path |-> "/b"]
      [] OTHER -> [scheme |-> "http", netloc |-> "example.com", path |-> "/doc.pdf"]

\* A text is its trimmed content (an identifier and a character count) plus
\* the amount of surrounding whitespace.
NoText == [body |-> "", len |-> 0, pad |-> 0]
OtterPlain == [body |-> "otter-plain", len |-> 120, pad |-> 1]
ShortText == [body |-> "otter-nav", len |-> 299, pad |-> 2]
MirrorText == [body |-> "mirror", len |-> 300, pad |-> 0]

Strip(text) == [text EXCEPT !.pad = 0]
CharLen(text) == text.len + text.pad
IsBlank(text) == text.len = 0

NoTitle == ""

\* What the network serves for each URL: content type, the text trafilatura
\* extracts from the markup, the metadata title and the anchors' hrefs.
\* PageA and PageB are mirrors (same text). PageA links PageB and WikiUrl,
\* PageB links back to PageA, and only the Wikipedia article links PdfUrl.
Href(kind, target) == [kind |-> kind, target |-> target]
Page(url) ==
    CASE url = WikiUrl -> [ctype |-> "text/html; charset=UTF-8", text |-> ShortText,
                           title |-> "Sea otter - Wikipedia",
                           hrefs |-> {Href("abs", PdfUrl), Href("frag", "#References")}]
      [] url = PageA -> [ctype |-> "text/html", text |-> MirrorText, title |-> "A",
                         hrefs |-> {Href("rel", "/b"), Href("abs", WikiUrl),
                                    Href("mailto", "mailto:webmaster@example.com"), Href("js", "javascript:void(0)")}]
      [] url = PageB -> [ctype |-> "text/html", text |-> MirrorText, title |-> NoTitle,
                         hrefs |-> {Href("rel", "/a")}]
      [] OTHER -> [ctype |-> "application/pdf", text |-> NoText, title |-> NoTitle,
                   hrefs |-> {}]

\* The plaintext and the summary title the Wikipedia REST API serves.
WikiPlain(url) == OtterPlain
WikiSummaryTitle(url) == "Sea otter"

\* Outcomes of the external calls made while one candidate is processed.
\* robots.txt: rules that allow the URL, rules that disallow it, a retrieval
\* or decoding failure that raises (connection error, timeout, bad encoding),
\* and an HTTP 401/403/5xx answer, which RobotFileParser.read() absorbs
\* without raising and after which can_fetch() answers False.
Envs == [robots : {"allow", "deny", "error", "refused"},
         wiki : {"ok", "empty", "error"},
         summary : {"ok", "notok", "error"},
         get : {"ok", "error"},
         extract : {"ok", "none", "error"},
         meta : {"ok", "error"},
         save : {"ok", "error"}]

(* ---------------------------- events ------------------------------------ *)
Signals == {"ROBOTS-BLOCKED", "SKIP-NONHTML", "EXTRACTION-FAILED/SHORT", "DUPLICATE",
            "SAVED", "ERROR", "CRAWL-ERROR"}
NetKinds == {"robots", "wiki-plain", "wiki-summary", "get", "refetch"}
Op(kind, url, ok) == [op |-> kind, url |-> url, ok |-> ok]
IsNet(e) == e.op \in NetKinds

NoFile == [title |-> NoTitle, body |-> NoText, size |-> 0]

\* A call that returned, a call that raised, a call whose failure was
\* swallowed where it happened, and a log line.
Do(st, kind, url) == [st EXCEPT !.ops = Append(@, Op(kind, url, TRUE))]
Raise(st) == [st EXCEPT !.raised = TRUE]
Fail(st, kind, url) == Raise([st EXCEPT !.ops = Append(@, Op(kind, url, FALSE))])
Swallowed(st, kind, url) == [st EXCEPT !.ops = Append(@, Op(kind, url, FALSE))]
LogSignal(st, sig, url) ==
    [st EXCEPT !.log[<<sig, url>>] = @ + 1, !.ops = Append(@, Op(sig, url, TRUE))]

(* ---------------------------- helpers ----------------------------------- *)
\* "wikipedia.org" in parsed.netloc and "/wiki/" in parsed.path, decided on
\* the hosts and paths of this web.
IsWikiShape(url) ==
    LET parsed == UrlParse(url)
    IN parsed.netloc \in {"en.wikipedia.org"} /\ parsed.path \in {"/wiki/Sea_otter"}

\* title.replace("_", " ") of unquote(path.split("/wiki/")[-1])
WikiPathTitle(url) == IF UrlParse(url).path = "/wiki/Sea_otter" THEN "Sea otter" ELSE NoTitle

\* Variant: any declared content type passes.
HasAnyType(ctype) == ctype # ""

HasTextHtml(ctype) == ctype \in {"text/html", "text/html; charset=UTF-8"}

MinLen == 300

\* Variant: the comparison is strict.
BudgetExhaustedStrict(total, max) == total > max

BudgetExhausted(total, max) == total >= max

\* hashlib.sha1(text.strip()...): equal exactly on equal trimmed texts
Sha1(text) == Strip(text).body

TitleLineLen(title) == IF title = NoTitle THEN 6 ELSE 7 + Len(title)
HeaderLen(url, title) == (5 + Len(url)) + 1 + TitleLineLen(title) + 1 + 31 + 2
ContentLen(url, title, text) == HeaderLen(url, title) + Strip(text).len + 1


\* The outcomes that matter for a URL: a call that is not reached has no
\* outcome to choose, so its field is left at "ok".
Reached(url, e) ==
        LET rest(fields) == \A f \in fields : e[f] = "ok"
        IN /\ e.robots \in {"deny", "refused"} => rest({"wiki", "summary", "get", "extract", "meta", "save"})
           /\ ~IsWikiShape(url) => rest({"wiki", "summary"})
           /\ (IsWikiShape(url) /\ e.wiki = "ok") => rest({"get", "extract", "meta"})
           /\ e.wiki = "empty" => rest({"summary"})
           /\ e.wiki = "error" => rest({"summary", "get", "extract", "meta", "save"})
           /\ e.get = "error" => rest({"extract", "meta", "save"})
           /\ ~HasTextHtml(Page(url).ctype) => rest({"extract", "meta", "save"})
           /\ e.extract # "ok" => rest({"meta", "save"})

EnvTable == [url \in URLs |-> {x : x \in {e \in Envs : Reached(url, e)}}]
EnvsFor(url) == EnvTable[url]

(* ---------------------------- process_url ------------------------------- *)
\* Python truthiness of a str|None: None and "" are falsy.
Falsy(text) == CharLen(text) = 0

\* save_txt: writes the file named after the URL and returns its byte size;
\* open() may raise, and then nothing is written.
SaveTxt(url, title, text, st, env) ==
    IF env.save = "error" THEN Fail(st, "save", url)
    ELSE LET size == ContentLen(url, title, text)
         IN [Do(st, "save", url) EXCEPT
                !.files[url] = [title |-> title, body |-> Strip(text), size |-> size],
                !.writes[url] = @ + 1,
                !.last_added = size]

\* Variant: the counter is overwritten with the size of the last file.
RecordBytesOverwrite(total, added) == added

\* total_bytes += added
RecordBytes(total, added) == total + added

\* added = save_txt(...); total_bytes += added; SAVED
PersistAndRecord(url, title, text, st, env) ==
    LET s1 == SaveTxt(url, title, text, st, env)
    IN IF s1.raised THEN s1
       ELSE LogSignal([s1 EXCEPT !.total_bytes = RecordBytes(@, s1.last_added)], "SAVED", url)

\* Variant: DUPLICATE is logged but the return is missing.
DedupNoReturn(url, title, text, st, env) ==
    LET h == Sha1(text)
        s1 == [st EXCEPT !.yielded[url] = text]
    IN PersistAndRecord(url, title, text,
                        IF h \in s1.seen_hashes THEN LogSignal(s1, "DUPLICATE", url)
                        ELSE [s1 EXCEPT !.seen_hashes = @ \cup {h}], env)

\* Deduplicate by content hash, then save.
Dedup(url, title, text, st, env) ==
    LET h == Sha1(text)
        s1 == [st EXCEPT !.yielded[url] = text]
    IN IF h \in s1.seen_hashes THEN LogSignal(s1, "DUPLICATE", url)
       ELSE PersistAndRecord(url, title, text, [s1 EXCEPT !.seen_hashes = @ \cup {h}], env)

\* extract_with_trafilatura: (title, text), (None, None), or an exception of
\* trafilatura.extract; a failing metadata extraction only loses the title.
ExtractWithTrafilatura(url, page, env) ==
    IF env.extract = "error" THEN [title |-> NoTitle, text |-> NoText, raised |-> TRUE]
    ELSE IF env.extract = "none" \/ Falsy(page.text)
         THEN [title |-> NoTitle, text |-> NoText, raised |-> FALSE]
         ELSE [title |-> IF env.meta = "ok" THEN page.title ELSE NoTitle,
               text |-> page.text, raised |-> FALSE]

\* Variant: a text of exactly the minimum length is rejected too.
TooShortInclusive(text) == Falsy(text) \/ Strip(text).len <= MinLen

\* not text or len(text.strip()) < 300
TooShort(text) == Falsy(text) \/ Strip(text).len < MinLen

\* The general fetch: GET, content-type test, extraction, minimum length.
\* (An extraction that returned no text leaves a "no-text" event.)
GeneralFetch(url, st, env) ==
    LET page == Page(url)
        s1 == Do(st, "get", url)
        ex == ExtractWithTrafilatura(url, page, env)
    IN IF env.get = "error" THEN Fail(st, "get", url)
       ELSE IF ~HasTextHtml(page.ctype) THEN LogSignal(s1, "SKIP-NONHTML", url)
       ELSE IF ex.raised THEN Fail(s1, "extract", url)
       ELSE IF TooShort(ex.text)
            THEN LogSignal(IF Falsy(ex.text) THEN Do(Do(s1, "extract", url), "no-text", url)
                           ELSE Do(s1, "extract", url),
                           "EXTRACTION-FAILED/SHORT", url)
            ELSE Dedup(url, ex.title, ex.text, Do(s1, "extract", url), env)

\* Variant: a failing plaintext request is answered with (None, None).
FetchWikipediaPlainLenient(url, st, env) ==
    LET none == [title |-> NoTitle, text |-> NoText]
        s1 == Do(st, "wiki-plain", url)
    IN IF ~IsWikiShape(url) THEN [res |-> none, st |-> st]
       ELSE IF env.wiki = "error" THEN [res |-> none, st |-> Swallowed(st, "wiki-plain", url)]
       ELSE IF env.wiki = "empty" \/ IsBlank(WikiPlain(url)) THEN [res |-> none, st |-> s1]
       ELSE [res |-> [title |-> WikiSummaryTitle(url), text |-> WikiPlain(url)],
             st |-> Do(s1, "wiki-summary", url)]

\* fetch_wikipedia_plain: (title, text) or (None, None), with the requests it
\* made; a failing plaintext request raises, a failing summary lookup falls
\* back to the title of the path.
FetchWikipediaPlain(url, st, env) ==
    LET none == [title |-> NoTitle, text |-> NoText]
        s1 == Do(st, "wiki-plain", url)
    IN IF ~IsWikiShape(url) THEN [res |-> none, st |-> st]
       ELSE IF env.wiki = "error" THEN [res |-> none, st |-> Fail(st, "wiki-plain", url)]
       ELSE IF env.wiki = "empty" \/ IsBlank(WikiPlain(url)) THEN [res |-> none, st |-> s1]
       ELSE IF env.summary = "ok"
            THEN [res |-> [title |-> WikiSummaryTitle(url), text |-> WikiPlain(url)],
                  st |-> Do(s1, "wiki-summary", url)]
            ELSE [res |-> [title |-> WikiPathTitle(url), text |-> WikiPlain(url)],
                  st |-> IF env.summary = "error" THEN Swallowed(s1, "wiki-summary", url)
                         ELSE Do(s1, "wiki-summary", url)]

\* Variant: the fingerprint of what the page holds is recorded before the
\* acquisition is attempted.
AcquireMarkingFirst(url, st, env) ==
    LET w == FetchWikipediaPlain(url, [st EXCEPT !.seen_hashes = @ \cup {Sha1(Page(url).text)}], env)
    IN IF w.st.raised THEN w.st
       ELSE IF Falsy(w.res.text) THEN GeneralFetch(url, w.st, env)
       ELSE Dedup(url, w.res.title, w.res.text, w.st, env)

\* Body of the try block: Wikipedia fast path, else the general fetch.
Acquire(url, st, env) ==
    LET w == FetchWikipediaPlain(url, st, env)
    IN IF w.st.raised THEN w.st
       ELSE IF Falsy(w.res.text) THEN GeneralFetch(url, w.st, env)
       ELSE Dedup(url, w.res.title, w.res.text, w.st, env)

\* Variant: the handler logs and raises again.
ExceptHandlerReraise(url, st) == LogSignal(st, "ERROR", url)

\* except Exception as e: logging.exception(ERROR ...)
ExceptHandler(url, st) == LogSignal([st EXCEPT !.raised = FALSE], "ERROR", url)

TryAcquire(url, st, env) ==
    LET r == Acquire(url, st, env)
    IN IF r.raised THEN ExceptHandler(url, r) ELSE r

\* ok_by_robots: rp.read(); rp.can_fetch(ua, url), True when either raises.
OkByRobots(url, env) ==
    CASE env.robots = "error" -> TRUE
      [] env.robots = "refused" -> FALSE
      [] OTHER -> env.robots = "allow"

\* The robots.txt request as an event: ok exactly when the file was obtained.
RobotsFetch(url, st, env) ==
    IF env.robots \in {"error", "refused"} THEN Swallowed(st, "robots", url)
    ELSE Do(st, "robots", url)

\* Variant: ROBOTS-BLOCKED is logged but the return is missing.
RobotsGateNoReturn(url, st, env) ==
    LET s1 == RobotsFetch(url, st, env)
    IN TryAcquire(url, IF ~OkByRobots(url, env) THEN LogSignal(s1, "ROBOTS-BLOCKED", url) ELSE s1,
                  env)

RobotsGate(url, st, env) ==
    LET s1 == RobotsFetch(url, st, env)
    IN IF ~OkByRobots(url, env) THEN LogSignal(s1, "ROBOTS-BLOCKED", url)
       ELSE TryAcquire(url, s1, env)

BudgetGate(url, st, env) ==
    IF BudgetExhausted(st.total_bytes, st.max_total_bytes) THEN st
    ELSE RobotsGate(url, st, env)

\* Variant: the membership test looks in a set the URL is never in.
AlreadyVisitedWrongSet(url, seen) == url \in {}

AlreadyVisited(url, seen) == url \in seen

ProcessUrl(url, st, env) ==
    IF AlreadyVisited(url, st.seen_urls) THEN st
    ELSE BudgetGate(url, [st EXCEPT !.seen_urls = @ \cup {url}], env)

(* ---------------------------- collect_links ----------------------------- *)
\* urljoin(base_url, href): a relative href is the path of a page of the
\* base's host, an absolute one is a URL.
UrlJoin(base_url, href) ==
    IF href.kind = "rel"
    THEN CHOOSE u \in URLs : /\ UrlParse(u).scheme = UrlParse(base_url).scheme
                             /\ UrlParse(u).netloc = UrlParse(base_url).netloc
                             /\ UrlParse(u).path = href.target
    ELSE href.target

SkippedHref(href) == href.kind \in {"frag", "mailto", "js"}

CollectLinks(base_url, hrefs, same_domain) ==
    LET base_domain == UrlParse(base_url).netloc
    IN {UrlJoin(base_url, h) : h \in {k \in hrefs :
            /\ ~SkippedHref(k)
            /\ same_domain => UrlParse(UrlJoin(base_url, k)).netloc = base_domain}}

\* random.shuffle(links): every order of the set
Shuffles(S) == {f \in [1..Cardinality(S) -> S] : \A i, j \in 1..Cardinality(S) : f[i] = f[j] => i = j}

\* Variant: the slice is missing.
TakeFollowAll(list, max_follow) == list

\* links[:max(0, args.max_follow)]
TakeFollow(list, max_follow) ==
    LET n == IF max_follow > 0 THEN max_follow ELSE 0
    IN SubSeq(list, 1, IF n < Len(list) THEN n ELSE Len(list))

(* ---------------------------- state ------------------------------------- *)
VARIABLES args, pc, idx, links, seen_urls, seen_hashes, total_bytes, last_added,
          files, writes, log, ops, pending, calls, yielded

vars == <<args, pc, idx, links, seen_urls, seen_hashes, total_bytes, last_added,
          files, writes, log, ops, pending, calls, yielded>>

\* Corpus budgets: nothing, exactly one page of PageA, more than the web holds.
Budgets == {0, ContentLen(PageA, "A", MirrorText), 1000}

\* The operator's seed file names PageA and the Wikipedia article, in any
\* order and with repetitions.
SeedPool == {PageA, WikiUrl}
SeedLists == UNION {[1..n -> SeedPool] : n \in 0..MaxSeeds}

\* --max-follow: negative, none, fewer than a page links, the default
DefaultMaxFollow == 5
FollowArgs == {-1, 0, 1, DefaultMaxFollow}

\* argparse result and read_seeds; the options of a run without --crawl that
\* the run never reads are left at one value.
ArgSets ==
    {a \in [seeds : SeedLists, max_total_bytes : Budgets, crawl : BOOLEAN,
            max_follow : FollowArgs, same_domain : BOOLEAN] :
        ~a.crawl => (a.max_follow = DefaultMaxFollow /\ ~a.same_domain)}

Init ==
    /\ args \in ArgSets
    /\ pc = "seed"
    /\ idx = 1
    /\ links = <<>>
    /\ seen_urls = {}
    /\ seen_hashes = {}
    /\ total_bytes = 0
    /\ last_added = 0
    /\ files = [u \in URLs |-> NoFile]
    /\ writes = [u \in URLs |-> 0]
    /\ log = [k \in Signals \X URLs |-> 0]
    /\ ops = <<>>
    /\ pending = FALSE
    /\ calls = [u \in URLs |-> 0]
    /\ yielded = [u \in URLs |-> NoText]

\* The network operations and sleeps among the events of a step, in order.
IsTraffic(e) == IsNet(e) \/ e.op = "sleep"
Traffic(events) == SelectSeq(events, IsTraffic)

\* The ledger and logs as process_url sees them on entry.
Entry ==
    [seen_urls |-> seen_urls, seen_hashes |-> seen_hashes, total_bytes |-> total_bytes,
     max_total_bytes |-> args.max_total_bytes, last_added |-> last_added, files |-> files,
     writes |-> writes, log |-> log, yielded |-> yielded, ops |-> <<>>, raised |-> FALSE]

Commit(st) ==
    /\ seen_urls' = st.seen_urls
    /\ seen_hashes' = st.seen_hashes
    /\ total_bytes' = st.total_bytes
    /\ last_added' = st.last_added
    /\ files' = st.files
    /\ writes' = st.writes
    /\ log' = st.log
    /\ yielded' = st.yielded
    /\ ops' = st.ops
    /\ pending' = LET t == Traffic(st.ops)
                  IN IF t = <<>> THEN pending ELSE IsNet(t[Len(t)])

\* Variant: the delay is interrupted by an exception.
SleepInterrupted(st, url) == Raise(st)

\* time.sleep(args.delay_seconds + random.random()); skipped when the call
\* before it raised.
Sleep(st, url) == IF st.raised THEN st ELSE Do(st, "sleep", url)

NextSeed == /\ idx' = idx + 1
            /\ pc' = "seed"
            /\ links' = <<>>

(* ---------------------------- main -------------------------------------- *)
\* for seed in seeds: ... process_url(seed); time.sleep(...)
\* (an exception leaving process_url here would end the run)
SeedIteration ==
    /\ pc = "seed"
    /\ idx <= Len(args.seeds)
    /\ ~BudgetExhausted(total_bytes, args.max_total_bytes)
    /\ \E env \in EnvsFor(args.seeds[idx]) :
       \E st \in {Sleep(ProcessUrl(args.seeds[idx], Entry, env), args.seeds[idx])} :
          /\ Commit(st)
          /\ calls' = [calls EXCEPT ![args.seeds[idx]] = @ + 1]
          /\ pc' = IF st.raised THEN "crashed" ELSE "expand"
    /\ UNCHANGED <<args, idx, links>>

\* if total_bytes >= args.max_total_bytes: break
BudgetBreak ==
    /\ pc = "seed"
    /\ idx <= Len(args.seeds)
    /\ BudgetExhausted(total_bytes, args.max_total_bytes)
    /\ pc' = "done"
    /\ Commit(Entry)
    /\ UNCHANGED <<args, idx, links, calls>>

\* the seed list is exhausted; print the summary
SeedsDone ==
    /\ pc = "seed"
    /\ idx > Len(args.seeds)
    /\ pc' = "done"
    /\ Commit(Entry)
    /\ UNCHANGED <<args, idx, links, calls>>

\* Variant: expansion does not look at the budget.
ExpansionIgnoresBudget(crawl, total, max) == crawl

\* if args.crawl and total_bytes < args.max_total_bytes:
ExpansionEnabled(crawl, total, max) == crawl /\ ~BudgetExhausted(total, max)

SkipExpansion ==
    /\ pc = "expand"
    /\ ~ExpansionEnabled(args.crawl, total_bytes, args.max_total_bytes)
    /\ NextSeed
    /\ Commit(Entry)
    /\ UNCHANGED <<args, calls>>

\* Variant: the handler logs and raises again.
CrawlExceptReraise(seed, st) == LogSignal(st, "CRAWL-ERROR", seed)

\* except Exception: logging.exception(CRAWL-ERROR seed=...)
CrawlExcept(seed, st) == LogSignal([st EXCEPT !.raised = FALSE], "CRAWL-ERROR", seed)

\* The state after the seed's page was fetched again and its links collected:
\* r = session.get(seed); if r.ok and HTML: links = collect_links(...)
Refetch(seed, st, get, discover) ==
    LET s1 == Do(st, "refetch", seed)
    IN IF get = "error" THEN Fail(st, "refetch", seed)
       ELSE IF get = "notok" \/ ~HasTextHtml(Page(seed).ctype) THEN s1
       ELSE IF discover = "error" THEN Fail(s1, "discover", seed)
       ELSE Do(s1, "discover", seed)

Discovered(st) == st.ops # <<>> /\ st.ops[Len(st.ops)] = Op("discover", st.ops[1].url, TRUE)

ExpandFetch ==
    /\ pc = "expand"
    /\ ExpansionEnabled(args.crawl, total_bytes, args.max_total_bytes)
    /\ \E get \in {"ok", "notok", "error"}, discover \in {"ok", "error"} :
          LET seed == args.seeds[idx]
              r == Refetch(seed, Entry, get, discover)
              c == CrawlExcept(seed, r)
          IN IF r.raised
             THEN /\ Commit(c)
                  /\ IF c.raised THEN pc' = "crashed" /\ UNCHANGED <<idx, links>> ELSE NextSeed
             ELSE IF ~Discovered(r)
             THEN Commit(r) /\ NextSeed
             ELSE /\ Commit(r)
                  /\ \E order \in Shuffles(CollectLinks(seed, Page(seed).hrefs, args.same_domain)) :
                        links' = TakeFollow(order, args.max_follow)
                  /\ pc' = "links"
                  /\ idx' = idx
    /\ UNCHANGED <<args, calls>>

\* Variant: the links of a followed page join the queue.
RemainingLinksDeep(queue, link, seen) ==
    LET more == CollectLinks(link, Page(link).hrefs, FALSE) \ seen
    IN Tail(queue) \o (CHOOSE order \in Shuffles(more) : TRUE)

\* the links still to follow once `link` was processed
RemainingLinks(queue, link, seen) == Tail(queue)

\* for link in links[...]: process_url(link); time.sleep(...)
\* (an exception leaving process_url here is caught by the crawl's except)
FollowLink ==
    /\ pc = "links"
    /\ links # <<>>
    /\ ~BudgetExhausted(total_bytes, args.max_total_bytes)
    /\ \E env \in EnvsFor(Head(links)) :
       \E st \in {Sleep(ProcessUrl(Head(links), Entry, env), Head(links))} :
          /\ calls' = [calls EXCEPT ![Head(links)] = @ + 1]
          /\ IF st.raised
             THEN Commit(CrawlExcept(args.seeds[idx], st)) /\ NextSeed
             ELSE /\ Commit(st)
                  /\ links' = RemainingLinks(links, Head(links), st.seen_urls)
                  /\ UNCHANGED <<pc, idx>>
    /\ UNCHANGED args

\* if total_bytes >= args.max_total_bytes: break (inside the link loop)
LinkBudgetBreak ==
    /\ pc = "links"
    /\ links # <<>>
    /\ BudgetExhausted(total_bytes, args.max_total_bytes)
    /\ NextSeed
    /\ Commit(Entry)
    /\ UNCHANGED <<args, calls>>

\* the link loop ran out of links
LinksDone ==
    /\ pc = "links"
    /\ links = <<>>
    /\ NextSeed
    /\ Commit(Entry)
    /\ UNCHANGED <<args, calls>>

Next ==
    \/ SeedIteration
    \/ BudgetBreak
    \/ SeedsDone
    \/ SkipExpansion
    \/ ExpandFetch
    \/ FollowLink
    \/ LinkBudgetBreak
    \/ LinksDone

Spec == Init /\ [][Next]_vars

\* The interpreter keeps executing main until it returns: every external call
\* returns or raises, so the next statement of main is eventually executed.
FairSpec == Spec /\ WF_vars(Next)

(* ---------------------------- properties --------------------------------- *)
RECURSIVE SumSizes(_, _)
SumSizes(fs, S) ==
    IF S = {} THEN 0
    ELSE LET u == CHOOSE x \in S : TRUE IN fs[u].size + SumSizes(fs, S \ {u})

Events(kinds, url) == {i \in 1..Len(ops) : ops[i].op \in kinds /\ ops[i].url = url}
SeedSet == {args.seeds[i] : i \in 1..Len(args.seeds)}

\* C1: a URL has observable effects at most once: its file is written at most
\* once, SAVED is logged and total_bytes credited for it at most once, and a
\* second presentation changes nothing and makes no request.
ProcessedAtMostOnce ==
    [][\A u \in URLs :
          /\ writes'[u] <= 1
          /\ log'[<<"SAVED", u>>] <= 1
          /\ total_bytes' = SumSizes(files', URLs)
          /\ (calls'[u] > calls[u] /\ calls[u] > 0) =>
                /\ <<seen_urls, seen_hashes, total_bytes, files, writes, log>>'
                      = <<seen_urls, seen_hashes, total_bytes, files, writes, log>>
                /\ \A i \in 1..Len(ops') : ops'[i].op = "sleep"]_vars

RepresentedAfterSave == \E u \in URLs : calls[u] >= 2 /\ writes[u] = 1

\* C2: total_bytes never exceeds the budget by more than the last page
\* written, and that page was written while total_bytes was below the budget.
OvershootAtMostOnePage ==
    /\ total_bytes <= args.max_total_bytes + last_added
    /\ last_added > 0 => total_bytes - last_added < args.max_total_bytes

BudgetOvershot == last_added > 0 /\ total_bytes > args.max_total_bytes

\* C3: two distinct URLs whose acquisition yielded the same body text leave
\* exactly one output file with that body.
OneFilePerBody ==
    \A u, v \in URLs :
        (u # v /\ yielded[u] # NoText /\ yielded[u] = yielded[v]) =>
            Cardinality({w \in URLs : files[w] # NoFile /\ files[w].body = Strip(yielded[u])}) = 1

\* C4 (as stated): a candidate that robots.txt disallows leaves visited_urls,
\* seen_fingerprints, total_bytes and the files as they were.
RobotsBlockedLeavesLedger ==
    [][\A u \in URLs :
          (\E i \in 1..Len(ops') : ops'[i] = Op("ROBOTS-BLOCKED", u, TRUE)) =>
              <<seen_urls, seen_hashes, total_bytes, files, writes>>'
                  = <<seen_urls, seen_hashes, total_bytes, files, writes>>]_vars

\* C4 (amended): a candidate that robots.txt disallows writes no file and
\* leaves seen_fingerprints and total_bytes as they were; it is marked visited.
RobotsBlockedOnlyMarksVisited ==
    [][\A u \in URLs :
          (\E i \in 1..Len(ops') : ops'[i] = Op("ROBOTS-BLOCKED", u, TRUE)) =>
              /\ <<seen_hashes, total_bytes, files, writes>>'
                    = <<seen_hashes, total_bytes, files, writes>>
              /\ u \notin seen_urls
              /\ seen_urls' = seen_urls \cup {u}]_vars

RobotsBlockedSeen == \E u \in URLs : Events({"ROBOTS-BLOCKED"}, u) # {}

\* C5: a candidate whose general fetch answers with a content type that is
\* not HTML is not extracted and gets no file, and SKIP-NONHTML is logged.
NonHtmlNeverExtracted ==
    \A i \in 1..Len(ops) :
        (ops[i].op = "get" /\ ops[i].ok /\ Page(ops[i].url).ctype = "application/pdf") =>
            /\ Events({"extract", "save"}, ops[i].url) = {}
            /\ Events({"SKIP-NONHTML"}, ops[i].url) # {}
            /\ files[ops[i].url] = NoFile

PdfFetched == \E i \in 1..Len(ops) : ops[i] = Op("get", PdfUrl, TRUE)

\* C6: no two network operations follow one another without a sleep between
\* them.
DelayBetweenNetworkOps ==
    LET t == Traffic(ops)
    IN /\ \A i \in 1..(Len(t) - 1) : ~(IsNet(t[i]) /\ IsNet(t[i + 1]))
       /\ ~(pending /\ t # <<>> /\ IsNet(t[1]))

\* C7: no candidate's failure ends the run: the run never dies of an
\* exception, and it ends only with every seed presented or the budget
\* exhausted.
RunSurvivesFailures ==
    /\ pc # "crashed"
    /\ pc = "done" => \/ \A s \in SeedSet : calls[s] > 0
                      \/ total_bytes >= args.max_total_bytes

ContinuedAfterError ==
    /\ pc = "done"
    /\ Len(args.seeds) = 2
    /\ args.seeds[1] # args.seeds[2]
    /\ log[<<"ERROR", args.seeds[1]>>] > 0
    /\ calls[args.seeds[2]] > 0

\* C8: a failing seed re-fetch or link discovery is caught on its own: no
\* link of the seed is processed, files and ledger stay as they were,
\* CRAWL-ERROR is logged and the run goes on with the next seed.
ExpansionFailureContained ==
    [][(\E i \in 1..Len(ops') : ops'[i].op \in {"refetch", "discover"} /\ ~ops'[i].ok) =>
          /\ <<seen_urls, seen_hashes, total_bytes, files, writes, calls>>'
                = <<seen_urls, seen_hashes, total_bytes, files, writes, calls>>
          /\ log' = [log EXCEPT ![<<"CRAWL-ERROR", args.seeds[idx]>>] = @ + 1]
          /\ pc' = "seed" /\ idx' = idx + 1 /\ links' = <<>>]_vars

ContinuedAfterCrawlError ==
    /\ Len(args.seeds) = 2
    /\ log[<<"CRAWL-ERROR", args.seeds[1]>>] > 0
    /\ files[args.seeds[1]] # NoFile
    /\ args.seeds[1] # args.seeds[2]
    /\ calls[args.seeds[2]] > 0

\* C9: once total_bytes has reached the budget no step starts new work: no
\* candidate is processed, no request is made, no file is written.
NoWorkAfterBudget ==
    [][total_bytes >= args.max_total_bytes =>
          /\ ops' = <<>>
          /\ <<seen_urls, seen_hashes, total_bytes, files, writes, calls>>'
                = <<seen_urls, seen_hashes, total_bytes, files, writes, calls>>]_vars

BudgetReachedWithLinksLeft ==
    /\ pc = "links" /\ links # <<>>
    /\ total_bytes >= args.max_total_bytes
    /\ args.max_total_bytes > 0

\* C10: only seeds and links of a seed's own page are ever processed or
\* requested.
LinkTargets(url) == {UrlJoin(url, h) : h \in {k \in Page(url).hrefs : ~SkippedHref(k)}}
OneLevel == SeedSet \cup UNION {LinkTargets(s) : s \in SeedSet}

OneLevelDeep ==
    /\ \A u \in URLs : calls[u] > 0 => u \in OneLevel
    /\ \A i \in 1..Len(ops) : ops[i].url \in OneLevel

DeeperLinkLeftAlone ==
    /\ pc = "done"
    /\ \E u \in URLs \ SeedSet : /\ writes[u] = 1
                                 /\ \E d \in LinkTargets(u) : d \notin OneLevel /\ calls[d] = 0

\* C11: the gate fails open: whenever robots.txt was not obtained the
\* candidate is not blocked, and a candidate is blocked only when robots.txt
\* was obtained and disallows it.
RobotsFailsOpen ==
    \A i \in 1..Len(ops) :
        LET e == ops[i]
        IN /\ (e.op = "robots" /\ ~e.ok) => Events({"ROBOTS-BLOCKED"}, e.url) = {}
           /\ e.op = "ROBOTS-BLOCKED" => (i > 1 /\ ops[i - 1] = Op("robots", e.url, TRUE))

\* C12: total_bytes never decreases, visited_urls and seen_fingerprints only
\* grow, and total_bytes changes only in a step that writes a file, by
\* exactly the size of that file.
LedgerOnlyGrows ==
    [][/\ total_bytes' >= total_bytes
       /\ seen_urls \subseteq seen_urls'
       /\ seen_hashes \subseteq seen_hashes'
       /\ total_bytes' # total_bytes =>
              \E u \in URLs :
                  /\ writes'[u] = writes[u] + 1
                  /\ \A v \in URLs \ {u} : writes'[v] = writes[v] /\ files'[v] = files[v]
                  /\ \E i \in 1..Len(ops') : ops'[i] = Op("save", u, TRUE)
                  /\ total_bytes' - total_bytes = files'[u].size
       /\ (\E u \in URLs : writes'[u] # writes[u]) => total_bytes' # total_bytes]_vars

SecondFileCredited ==
    /\ Cardinality({u \in URLs : files[u] # NoFile}) = 2
    /\ \E i \in 1..Len(ops) : ops[i].op = "save" /\ ops[i].ok
    /\ total_bytes = SumSizes(files, URLs)

\* C13: every run reaches the final summary, whatever the seeds, the links
\* and the outcomes of the external calls.
RunTerminates == <>(pc = "done")

FinishedAfterFailures ==
    /\ pc = "done"
    /\ args.crawl /\ Len(args.seeds) = MaxSeeds
    /\ \E u \in URLs : log[<<"ERROR", u>>] > 0
    /\ \E u \in URLs : log[<<"CRAWL-ERROR", u>>] > 0
    /\ \E u \in URLs : log[<<"ROBOTS-BLOCKED", u>>] > 0
    /\ total_bytes < args.max_total_bytes

\* C14: process_url runs visited check, robots check, acquisition, dedup
\* check, persist, record_bytes in this order, and a rejecting step ends it:
\* no page fetch before robots allowed the URL, no file before the dedup check
\* passed, no credit to total_bytes before the file was written.
Rejections == {"ROBOTS-BLOCKED", "SKIP-NONHTML", "EXTRACTION-FAILED/SHORT", "DUPLICATE"}

StepsInOrder ==
    [][/\ \A i \in 1..Len(ops') :
            LET e == ops'[i]
                u == e.url
                before(kinds) == {j \in 1..(i - 1) : ops'[j].op \in kinds /\ ops'[j].url = u}
                anywhere(kinds) == {j \in 1..Len(ops') : ops'[j].op \in kinds /\ ops'[j].url = u}
            IN /\ e.op = "robots" => (i = 1 /\ u \notin seen_urls /\ u \in seen_urls')
               /\ e.op \in {"wiki-plain", "get"} =>
                      (before({"robots"}) # {} /\ anywhere({"ROBOTS-BLOCKED"}) = {})
               /\ e.op = "extract" => \E j \in before({"get"}) : ops'[j].ok
               /\ e.op = "save" =>
                      /\ \E j \in before({"extract", "wiki-plain"}) : ops'[j].ok
                      /\ anywhere({"DUPLICATE"}) = {}
                      /\ Sha1(yielded'[u]) \notin seen_hashes
                      /\ Sha1(yielded'[u]) \in seen_hashes'
               /\ e.op = "SAVED" => (i > 1 /\ ops'[i - 1] = Op("save", u, TRUE))
               /\ e.op \in Rejections => \A j \in (i + 1)..Len(ops') : ops'[j].op = "sleep"
       /\ total_bytes' # total_bytes => \E i \in 1..Len(ops') : ops'[i].op = "SAVED"]_vars

FullPipelineRun ==
    ops = <<Op("robots", PageA, TRUE), Op("get", PageA, TRUE), Op("extract", PageA, TRUE),
            Op("save", PageA, TRUE), Op("SAVED", PageA, TRUE), Op("sleep", PageA, TRUE)>>

\* C15: the general fetch is made only when the fast path was not applicable
\* or returned no text; when the fast path returned text neither the general
\* fetch nor the extraction is made; a transport error in a tier is followed
\* by ERROR and nothing else for the candidate.
TiersInOrder ==
    [][\A i \in 1..Len(ops') :
          LET e == ops'[i]
              u == e.url
              of(kinds) == {j \in 1..Len(ops') : ops'[j].op \in kinds /\ ops'[j].url = u}
          IN /\ e.op = "get" =>
                    /\ of({"wiki-summary"}) = {}
                    /\ \/ ~IsWikiShape(u) /\ of({"wiki-plain"}) = {}
                       \/ IsWikiShape(u) /\ i > 1 /\ ops'[i - 1] = Op("wiki-plain", u, TRUE)
             /\ e.op = "wiki-summary" =>
                    /\ of({"get", "extract", "no-text"}) = {}
                    /\ ops'[i - 1] = Op("wiki-plain", u, TRUE)
                    /\ yielded'[u] = WikiPlain(u)
             /\ (e.op \in {"wiki-plain", "get"} /\ ~e.ok) =>
                    /\ i < Len(ops') /\ ops'[i + 1] = Op("ERROR", u, TRUE)
                    /\ \A j \in (i + 2)..Len(ops') : ops'[j].op = "sleep"
                    /\ <<seen_hashes, total_bytes, files, writes, yielded>>'
                          = <<seen_hashes, total_bytes, files, writes, yielded>>]_vars

FallbackThenTransportError ==
    /\ log[<<"EXTRACTION-FAILED/SHORT", WikiUrl>>] > 0
    /\ \E i \in 1..Len(ops) : ops[i] = Op("get", PageA, FALSE)
    /\ files[PageA] = NoFile

\* C16: a general-fallback candidate whose trimmed text is shorter than 300
\* characters, or empty, is rejected with EXTRACTION-FAILED/SHORT and gets no
\* file; a text of exactly 300 characters is not rejected for its length.
MinimumLengthGate ==
    /\ \A u \in URLs : (files[u] # NoFile /\ ~IsWikiShape(u)) => files[u].body.len >= 300
    /\ \A i \in 1..Len(ops) :
          LET u == ops[i].url
              short == Events({"no-text"}, u) # {} \/ Strip(Page(u).text).len < 300
          IN ops[i] = Op("extract", u, TRUE) =>
                /\ short => /\ Events({"EXTRACTION-FAILED/SHORT"}, u) # {}
                            /\ Events({"save", "SAVED", "DUPLICATE"}, u) = {}
                            /\ files[u] = NoFile
                /\ ~short => /\ Events({"EXTRACTION-FAILED/SHORT"}, u) = {}
                             /\ Events({"save", "DUPLICATE"}, u) # {}
                /\ Events({"save"}, u) # {} => Strip(yielded[u]).len >= 300

ShortRejectedExactAccepted ==
    /\ log[<<"EXTRACTION-FAILED/SHORT", WikiUrl>>] > 0
    /\ Strip(Page(WikiUrl).text).len = 299
    /\ files[PageA] # NoFile
    /\ files[PageA].body.len = 300
    /\ Events({"extract"}, PageA) # {}

\* C17: a candidate rejected for quality (not HTML, extraction empty or too
\* short) or abandoned after a transport error leaves seen_fingerprints and
\* total_bytes as they were and writes no file.
QualityRejectionLeavesLedger ==
    [][(\E i \in 1..Len(ops') :
            \/ ops'[i].op \in {"SKIP-NONHTML", "EXTRACTION-FAILED/SHORT"}
            \/ ops'[i].op \in {"wiki-plain", "get"} /\ ~ops'[i].ok) =>
          /\ <<seen_hashes, total_bytes, last_added, files, writes>>'
                = <<seen_hashes, total_bytes, last_added, files, writes>>
          /\ \A i \in 1..Len(ops') : ops'[i].op \notin {"save", "SAVED"}]_vars

RejectedAfterASave ==
    /\ seen_hashes # {}
    /\ total_bytes > 0
    /\ \E i \in 1..Len(ops) :
           \/ ops[i].op \in {"SKIP-NONHTML", "EXTRACTION-FAILED/SHORT"}
           \/ ops[i].op \in {"wiki-plain", "get"} /\ ~ops[i].ok

\* C18: with crawl enabled at most max_follow of the links discovered on a
\* seed's page are processed (none when max_follow <= 0); with crawl disabled
\* the seed is not fetched again and no link is discovered or processed.
FollowLimit == IF args.max_follow > 0 THEN args.max_follow ELSE 0

FollowBounded ==
    [][/\ (pc = "expand" /\ pc' = "links") =>
              /\ Len(links') <= FollowLimit
              /\ \A i \in 1..Len(links') :
                     links'[i] \in CollectLinks(args.seeds[idx], Page(args.seeds[idx]).hrefs,
                                               args.same_domain)
              /\ \A i, j \in 1..Len(links') : links'[i] = links'[j] => i = j
       /\ pc' = "links" => (args.crawl /\ Len(links') <= FollowLimit)
       /\ (pc = "links" /\ calls' # calls) =>
              /\ calls' = [calls EXCEPT ![Head(links)] = @ + 1]
              /\ (pc' = "links" => links' = Tail(links))
       /\ (pc # "seed" /\ calls' # calls) => (pc = "links" /\ links # <<>>)
       /\ (pc = "seed" /\ calls' # calls) => calls' = [calls EXCEPT ![args.seeds[idx]] = @ + 1]
       /\ ~args.crawl =>
              /\ links' = <<>> /\ pc' # "links"
              /\ \A i \in 1..Len(ops') : ops'[i].op \notin {"refetch", "discover"}]_vars

FollowCutShort ==
    /\ args.crawl /\ args.max_follow = 1
    /\ pc = "links" /\ links = <<>>
    /\ Cardinality(CollectLinks(args.seeds[idx], Page(args.seeds[idx]).hrefs, args.same_domain)) = 2
    /\ Cardinality({u \in URLs : calls[u] > 0}) = 2

\* C19: the page of a URL that robots.txt disallows is never requested,
\* neither by the acquisition tiers nor by the seed re-fetch of the crawl.
\* (Stated for the step that blocks the URL and the step after it.)
DisallowedNeverRequested ==
    [][\A u \in URLs :
          (\E i \in 1..(Len(ops) - 1) : /\ ops[i] = Op("robots", u, TRUE)
                                        /\ ops[i + 1] = Op("ROBOTS-BLOCKED", u, TRUE)) =>
              /\ Events({"wiki-plain", "wiki-summary", "get", "refetch"}, u) = {}
              /\ \A j \in 1..Len(ops') :
                     ~(ops'[j].url = u /\ ops'[j].op \in {"wiki-plain", "wiki-summary", "get", "refetch"})]_vars

\* C20: every fingerprint in seen_fingerprints is the fingerprint of the body
\* of a file written in this run, so there are as many fingerprints as files.
FingerprintsAreOnDisk ==
    /\ \A h \in seen_hashes : \E u \in URLs : files[u] # NoFile /\ Sha1(files[u].body) = h
    /\ Cardinality(seen_hashes) = Cardinality({u \in URLs : files[u] # NoFile})
    /\ \A u \in URLs : log[<<"DUPLICATE", u>>] > 0 =>
           \E v \in URLs : files[v] # NoFile /\ files[v].body = Strip(yielded[u])

====
